---- MODULE Spec2Model ----
(***************************************************************************)
(* A model of typed-agents: the interaction-net reduction engine           *)
(* (src/src/run.rs) and the program builder, type checker and completeness *)
(* checker built on it (src/src/main.rs).                                  *)
(***************************************************************************)
EXTENDS Integers, Sequences, FiniteSets, TLC

VARIABLES
    pc,         \* position of the running program
    system,     \* Net.system / Program.system: the shared rule table
    net,        \* the Net being reduced
    last,       \* the trees, the net and the case of the latest interact call
    fresh_log,  \* the fresh ids of every apply_rule call made on net so far
    gc,         \* typecheck_net's garbage list
    book,       \* the statements main() got from the parser
    loaded,     \* how many of them load_book has loaded
    builder,    \* the ProgramBuilder
    program,    \* the Program finish() returned, if it returned
    checks,     \* the checks check_well_typedness has yet to finish
    result,     \* what the latest typecheck_net call returned
    stuck_pair, \* the stuck pair typecheck_net popped last, as (a, b) after its swap
    complete,   \* what check_completeness returned
    subst,      \* a tree and what substitute_ref and substitute returned for it
    inst        \* the call stack of a get_nth_instances call and what it returned

progvars == <<book, loaded, builder, program, checks, result, stuck_pair, complete, subst, inst>>
vars ==
    <<pc, system, net, last, fresh_log, gc,
      book, loaded, builder, program, checks, result, stuck_pair, complete, subst, inst>>

(***************************************************************************)
(* Bounds of the model.                                                    *)
(***************************************************************************)
MaxNodes == 5     \* tree nodes in the net a client hands to normal()
MaxPending == 2   \* pending pairs in the net a client hands to normal()
NumVars == 2      \* variables the client allocated before normal()
MaxBook == 4      \* statements in the book main() loads
MaxIndexes == 2   \* index trees of a declaration of the instance hierarchies
MaxDepth == 2     \* depth get_nth_instances is first called at
MaxStack == MaxIndexes + MaxDepth + 4   \* frames of get_nth_instances followed

(***************************************************************************)
(* run.rs: Tree.                                                           *)
(***************************************************************************)
Agent(id, aux) == [id |-> id, aux |-> aux]
Var(id) == [var |-> id]
IsVar(t) == "var" \in DOMAIN t
IsAgent(t) == "id" \in DOMAIN t

\* Option<T>: None is <<>>, Some(t) is <<t>>
None == <<>>
Some(t) == <<t>>
IsSome(o) == Len(o) = 1

RECURSIVE SumSeq(_)
SumSeq(s) == IF s = <<>> THEN 0 ELSE Head(s) + SumSeq(Tail(s))

RECURSIVE ConcatAll(_)
ConcatAll(ss) == IF ss = <<>> THEN <<>> ELSE Head(ss) \o ConcatAll(Tail(ss))

RECURSIVE VarOccs(_, _)
\* the number of occurrences of variable id v in tree t
VarOccs(t, v) ==
    IF IsVar(t) THEN (IF t.var = v THEN 1 ELSE 0)
    ELSE SumSeq([k \in 1..Len(t.aux) |-> VarOccs(t.aux[k], v)])

RECURSIVE TreeVars(_)
TreeVars(t) ==
    IF IsVar(t) THEN {t.var}
    ELSE UNION {TreeVars(t.aux[k]) : k \in 1..Len(t.aux)}

(***************************************************************************)
(* SlotMap<VarId, Option<Tree>>: a key is <<index, version>>.  A slot that *)
(* is occupied has an odd version; removing bumps the version and pushes   *)
(* the index on the free list, inserting reuses the head of the free list  *)
(* under the next odd version.                                             *)
(***************************************************************************)
EmptySlotMap == [slots |-> <<>>, free |-> <<>>]

SmContains(sm, key) ==
    /\ key[1] \in 1..Len(sm.slots)
    /\ sm.slots[key[1]].version = key[2]

SmKeys(sm) == {<<i, sm.slots[i].version>> : i \in {j \in 1..Len(sm.slots) : sm.slots[j].version % 2 = 1}}

SmGet(sm, key) == sm.slots[key[1]].value

SmSet(sm, key, value) ==
    [sm EXCEPT !.slots[key[1]].value = value]

\* a slot index reused without a new version: keys of removed slots come back
SmInsertSameVersion(sm, value) ==
    IF sm.free = <<>>
    THEN [sm |-> [sm EXCEPT !.slots = Append(@, [version |-> 1, value |-> value])],
          key |-> <<Len(sm.slots) + 1, 1>>]
    ELSE LET i == Head(sm.free) IN
         [sm |-> [slots |-> [sm.slots EXCEPT ![i] = [version |-> 1, value |-> value]],
                  free |-> Tail(sm.free)],
          key |-> <<i, 1>>]

SmInsert(sm, value) ==
    IF sm.free = <<>>
    THEN [sm |-> [sm EXCEPT !.slots = Append(@, [version |-> 1, value |-> value])],
          key |-> <<Len(sm.slots) + 1, 1>>]
    ELSE LET i == Head(sm.free)
             v == sm.slots[i].version + 1
         IN  [sm |-> [slots |-> [sm.slots EXCEPT ![i] = [version |-> v, value |-> value]],
                      free |-> Tail(sm.free)],
              key |-> <<i, v>>]

SmRemove(sm, key) ==
    [slots |-> [sm.slots EXCEPT ![key[1]] = [version |-> @.version + 1, value |-> None]],
     free |-> <<key[1]>> \o sm.free]

(***************************************************************************)
(* run.rs: Net.                                                            *)
(***************************************************************************)
EmptyNet == [interactions |-> <<>>, vars |-> EmptySlotMap, stuck |-> <<>>, panic |-> FALSE]

new_var(n) ==
    LET r == SmInsert(n.vars, None)
    IN  [net |-> [n EXCEPT !.vars = r.sm], id |-> r.key]

\* the pair pushed with its sides exchanged
link_swapped(n, a, b) == [n EXCEPT !.interactions = Append(@, <<b, a>>)]

link(n, a, b) == [n EXCEPT !.interactions = Append(@, <<a, b>>)]

\* the scope is never consulted: every occurrence gets an id of its own
freshen_var_always_new(n, scope, id) ==
    LET r == new_var(n)
    IN  [net |-> r.net, scope |-> scope, tree |-> Var(r.id)]

freshen_var(n, scope, id) ==
    IF id \in DOMAIN scope
    THEN [net |-> n,
          scope |-> [k \in DOMAIN scope \ {id} |-> scope[k]],
          tree |-> Var(scope[id])]
    ELSE LET r == new_var(n)
         IN  [net |-> r.net, scope |-> (id :> r.id) @@ scope, tree |-> Var(r.id)]

RECURSIVE freshen(_, _, _)
RECURSIVE freshen_aux(_, _, _)
freshen(n, scope, tree) ==
    IF IsVar(tree)
    THEN freshen_var(n, scope, tree.var)
    ELSE LET r == freshen_aux(n, scope, tree.aux)
         IN  [net |-> r.net, scope |-> r.scope, tree |-> Agent(tree.id, r.trees)]

\* aux.into_iter().map(|x| self.freshen(scope, x)).collect(), left to right
freshen_aux(n, scope, trees) ==
    IF trees = <<>>
    THEN [net |-> n, scope |-> scope, trees |-> <<>>]
    ELSE LET h == freshen(n, scope, Head(trees))
             t == freshen_aux(h.net, h.scope, Tail(trees))
         IN  [net |-> t.net, scope |-> t.scope, trees |-> <<h.tree>> \o t.trees]

Min(a, b) == IF a < b THEN a ELSE b

\* rule.left_ports.iter().zip(left).chain(rule.right_ports.iter().zip(right))
RulePairs(rule, left, right) ==
    [k \in 1..Min(Len(rule.left_ports), Len(left)) |-> <<rule.left_ports[k], left[k]>>]
    \o [k \in 1..Min(Len(rule.right_ports), Len(right)) |-> <<rule.right_ports[k], right[k]>>]

RECURSIVE apply_pairs(_, _, _)
apply_pairs(n, scope, pairs) ==
    IF pairs = <<>>
    THEN n
    ELSE LET f == freshen(n, scope, Head(pairs)[1])
         IN  apply_pairs(link(f.net, f.tree, Head(pairs)[2]), f.scope, Tail(pairs))

apply_rule(n, rule, left, right) ==
    apply_pairs(n, << >>, RulePairs(rule, left, right))

HasRule(sys, a, b) == <<a, b>> \in DOMAIN sys

\* the stuck pair recorded with its sides exchanged
push_stuck_swapped(n, a, b) == [n EXCEPT !.stuck = Append(@, <<b, a>>)]

\* the stuck pair replaces the stuck set
push_stuck_replacing(n, a, b) == [n EXCEPT !.stuck = <<<<a, b>>>>]

\* the pair without a rule is forgotten
push_stuck_dropped(n, a, b) == n

push_stuck(n, a, b) == [n EXCEPT !.stuck = Append(@, <<a, b>>)]

\* the slot of a resolved variable is emptied and stays in the store
interact_var_keeps_slot(n, a, id) ==
    IF ~SmContains(n.vars, id)
    THEN [n EXCEPT !.panic = TRUE]
    ELSE IF IsSome(SmGet(n.vars, id))
    THEN link([n EXCEPT !.vars = SmSet(@, id, None)], a, SmGet(n.vars, id)[1])
    ELSE [n EXCEPT !.vars = SmSet(@, id, Some(a))]

\* a tree met with an unbound variable is recorded as stuck
interact_var_unbound_goes_stuck(n, a, id) ==
    IF ~SmContains(n.vars, id)
    THEN [n EXCEPT !.panic = TRUE]
    ELSE IF IsSome(SmGet(n.vars, id))
    THEN link([n EXCEPT !.vars = SmRemove(@, id)], a, SmGet(n.vars, id)[1])
    ELSE push_stuck(n, a, Var(id))

\* the arm (a, Var { id }) | (Var { id }, a) of interact
interact_var(n, a, id) ==
    IF ~SmContains(n.vars, id)
    THEN [n EXCEPT !.panic = TRUE]
    ELSE IF IsSome(SmGet(n.vars, id))
    THEN link([n EXCEPT !.vars = SmRemove(@, id)], a, SmGet(n.vars, id)[1])
    ELSE [n EXCEPT !.vars = SmSet(@, id, Some(a))]

\* the rule stored under (kind(b), kind(a)) is looked up first
interact_swapped_first(sys, n, a, b) ==
    IF IsAgent(a) /\ IsAgent(b)
    THEN IF HasRule(sys, b.id, a.id)
         THEN apply_rule(n, sys[<<b.id, a.id>>], b.aux, a.aux)
         ELSE IF HasRule(sys, a.id, b.id)
         THEN apply_rule(n, sys[<<a.id, b.id>>], a.aux, b.aux)
         ELSE push_stuck(n, a, b)
    ELSE IF IsVar(b)
    THEN interact_var(n, a, b.var)
    ELSE interact_var(n, b, a.var)

interact(sys, n, a, b) ==
    IF IsAgent(a) /\ IsAgent(b)
    THEN IF HasRule(sys, a.id, b.id)
         THEN apply_rule(n, sys[<<a.id, b.id>>], a.aux, b.aux)
         ELSE IF HasRule(sys, b.id, a.id)
         THEN apply_rule(n, sys[<<b.id, a.id>>], b.aux, a.aux)
         ELSE push_stuck(n, a, b)
    ELSE IF IsVar(b)
    THEN interact_var(n, a, b.var)
    ELSE interact_var(n, b, a.var)

\* let v = ...; F(v): the value is bound once and handed on
Let(v, F(_)) == F(v)

RECURSIVE substitute_ref_one_step(_, _)
\* the binding of a variable is returned as it is, not resolved in turn
substitute_ref_one_step(n, tree) ==
    IF IsAgent(tree)
    THEN Agent(tree.id, [k \in 1..Len(tree.aux) |-> substitute_ref_one_step(n, tree.aux[k])])
    ELSE IF SmContains(n.vars, tree.var) /\ IsSome(SmGet(n.vars, tree.var))
    THEN SmGet(n.vars, tree.var)[1]
    ELSE tree

RECURSIVE substitute_ref(_, _)
substitute_ref(n, tree) ==
    IF IsAgent(tree)
    THEN Agent(tree.id, [k \in 1..Len(tree.aux) |-> substitute_ref(n, tree.aux[k])])
    ELSE IF SmContains(n.vars, tree.var) /\ IsSome(SmGet(n.vars, tree.var))
    THEN substitute_ref(n, SmGet(n.vars, tree.var)[1])
    ELSE tree

RECURSIVE substitute(_, _)
RECURSIVE substitute_aux(_, _)
\* the net and the tree after substitute; get_mut(id).unwrap() panics on a
\* variable that has no slot, and nothing runs after a panic
substitute(n, tree) ==
    IF n.panic
    THEN [net |-> n, tree |-> tree]
    ELSE IF IsAgent(tree)
    THEN Let(substitute_aux(n, tree.aux), LAMBDA r :
             [net |-> r.net, tree |-> Agent(tree.id, r.trees)])
    ELSE IF ~SmContains(n.vars, tree.var)
    THEN [net |-> [n EXCEPT !.panic = TRUE], tree |-> tree]
    ELSE IF IsSome(SmGet(n.vars, tree.var))
    THEN substitute([n EXCEPT !.vars = SmRemove(@, tree.var)], SmGet(n.vars, tree.var)[1])
    ELSE [net |-> n, tree |-> tree]

\* aux.into_iter().map(|x| self.substitute(x)).collect(), left to right
substitute_aux(n, trees) ==
    IF trees = <<>>
    THEN [net |-> n, trees |-> <<>>]
    ELSE Let(substitute(n, Head(trees)), LAMBDA h :
         Let(substitute_aux(h.net, Tail(trees)), LAMBDA t :
             [net |-> t.net, trees |-> <<h.tree>> \o t.trees]))

(***************************************************************************)
(* syntax.rs: what the parser hands to the builder.                        *)
(***************************************************************************)
SAgent(name, aux) == [name |-> name, aux |-> aux]
SVariable(name) == [vname |-> name]
SWith(rest, l, r) == [rest |-> rest, redex |-> <<l, r>>]
\* TypedMatch and UntypedMatch: a name and the aux trees (triples, trees)
SMatch(name, aux) == [name |-> name, aux |-> aux]
Decl(a, indexes, t) == [kind |-> "Decl", agent |-> a, vars |-> indexes, type |-> t]
Def(a, b) == [kind |-> "Def", left |-> a, right |-> b]
Check(positive, interactions) == [kind |-> "Check", positive |-> positive, interactions |-> interactions]

(***************************************************************************)
(* main.rs: ProgramBuilder.  An AgentId is the index of its slot in the    *)
(* SlotMap agents, from which nothing is removed.                          *)
(***************************************************************************)
NewBuilder ==
    [var_scope |-> << >>, agent_scope |-> << >>, net |-> EmptyNet, agents |-> 0,
     declarations |-> <<>>, definitions |-> <<>>, checks |-> <<>>]

get_agent_id(b, name) ==
    IF name \in DOMAIN b.agent_scope
    THEN [b |-> b, id |-> b.agent_scope[name]]
    ELSE [b |-> [b EXCEPT !.agents = @ + 1, !.agent_scope = (name :> (b.agents + 1)) @@ @],
          id |-> b.agents + 1]

get_var_id(b, name) ==
    IF name \in DOMAIN b.var_scope
    THEN [b |-> b, id |-> b.var_scope[name]]
    ELSE LET r == new_var(b.net)
         IN  [b |-> [b EXCEPT !.net = r.net, !.var_scope = (name :> r.id) @@ @], id |-> r.id]

\* the flattened redex is forgotten
hoist_dropped(b, t0, t1) == b

\* self.net.interactions.push((t0, t1))
hoist(b, t0, t1) == [b EXCEPT !.net.interactions = Append(@, <<t0, t1>>)]

RECURSIVE load_tree(_, _)
RECURSIVE load_trees(_, _)
load_tree(b, tree) ==
    IF "vname" \in DOMAIN tree
    THEN Let(get_var_id(b, tree.vname), LAMBDA r : [b |-> r.b, tree |-> Var(r.id)])
    ELSE IF "redex" \in DOMAIN tree
    THEN Let(load_tree(b, tree.redex[1]), LAMBDA t0 :
         Let(load_tree(t0.b, tree.redex[2]), LAMBDA t1 :
             load_tree(hoist(t1.b, t0.tree, t1.tree), tree.rest)))
    ELSE Let(get_agent_id(b, tree.name), LAMBDA g :
         Let(load_trees(g.b, tree.aux), LAMBDA r :
             [b |-> r.b, tree |-> Agent(g.id, r.trees)]))

\* into_iter().map(|x| self.load_tree(x)).collect(), left to right
load_trees(b, trees) ==
    IF trees = <<>>
    THEN [b |-> b, trees |-> <<>>]
    ELSE Let(load_tree(b, Head(trees)), LAMBDA h :
         Let(load_trees(h.b, Tail(trees)), LAMBDA t :
             [b |-> t.b, trees |-> <<h.tree>> \o t.trees]))

load_untyped_match(b, m) ==
    Let(get_agent_id(b, m.name), LAMBDA g :
    Let(load_trees(g.b, m.aux), LAMBDA r :
        [b |-> r.b, m |-> [id |-> g.id, aux |-> r.trees]]))

\* the triples (a, b, c) are loaded a, b, c, one triple after the other
load_typed_match(b, m) ==
    Let(get_agent_id(b, m.name), LAMBDA g :
    Let(load_trees(g.b, ConcatAll(m.aux)), LAMBDA r :
        [b |-> r.b,
         m |-> [id |-> g.id,
                aux |-> [k \in 1..Len(m.aux) |->
                            <<r.trees[3 * k - 2], r.trees[3 * k - 1], r.trees[3 * k]>>]]]))

\* CodeParser::new("__ANN(a b) ~ __ANN(a b)").parse_book()
AnnBook ==
    <<Def(SMatch("__ANN", <<SVariable("a"), SVariable("b")>>),
          SMatch("__ANN", <<SVariable("a"), SVariable("b")>>))>>
\* CodeParser::new("__ANNOTATOR(a) ~ __ANNOTATOR(a)").parse_book()
AnnotatorBook ==
    <<Def(SMatch("__ANNOTATOR", <<SVariable("a")>>),
          SMatch("__ANNOTATOR", <<SVariable("a")>>))>>

load_def(b, st) ==
    Let(load_untyped_match(b, st.left), LAMBDA l :
    Let(load_untyped_match(l.b, st.right), LAMBDA r :
        [r.b EXCEPT !.net = EmptyNet,
                    !.definitions = Append(@, [left |-> l.m, right |-> r.m, net |-> r.b.net])]))

RECURSIVE load_defs(_, _)
\* load_book on a book of definitions only, as the two bookkeeping books are:
\* load_statement takes its Def arm and clears var_scope, for each in turn
load_defs(b, stmts) ==
    IF stmts = <<>>
    THEN b
    ELSE load_defs([load_def(b, Head(stmts)) EXCEPT !.var_scope = << >>], Tail(stmts))

create_annotation_node(b) == load_defs(b, AnnBook)

get_ann_id(b) ==
    IF "__ANN" \in DOMAIN b.agent_scope
    THEN [b |-> b, id |-> b.agent_scope["__ANN"]]
    ELSE Let(create_annotation_node(b), LAMBDA b2 : [b |-> b2, id |-> b2.agent_scope["__ANN"]])

get_annotator_id(b) ==
    IF "__ANNOTATOR" \in DOMAIN b.agent_scope
    THEN [b |-> b, id |-> b.agent_scope["__ANNOTATOR"]]
    ELSE Let(load_defs(b, AnnotatorBook), LAMBDA b2 :
             [b |-> b2, id |-> b2.agent_scope["__ANNOTATOR"]])

\* the Definition made of a Declaration starts with a net of its own
annotator_rule_without_net(annotator_id, ann_id, decl) ==
    [left |-> [id |-> annotator_id,
               aux |-> <<Agent(ann_id,
                          <<Agent(decl.agent.id,
                                  [k \in 1..Len(decl.agent.aux) |-> decl.agent.aux[k][2]]),
                            Agent(decl.type.id, decl.type.aux)>>)>>],
     right |-> [id |-> decl.agent.id,
                aux |-> [k \in 1..Len(decl.agent.aux) |->
                            Agent(ann_id, <<decl.agent.aux[k][1], decl.agent.aux[k][3]>>)]],
     net |-> EmptyNet]

\* the left pattern takes the pre-state of each port, the right its post-state
annotator_rule_pre_post_swapped(annotator_id, ann_id, decl) ==
    [left |-> [id |-> annotator_id,
               aux |-> <<Agent(ann_id,
                          <<Agent(decl.agent.id,
                                  [k \in 1..Len(decl.agent.aux) |-> decl.agent.aux[k][1]]),
                            Agent(decl.type.id, decl.type.aux)>>)>>],
     right |-> [id |-> decl.agent.id,
                aux |-> [k \in 1..Len(decl.agent.aux) |->
                            Agent(ann_id, <<decl.agent.aux[k][2], decl.agent.aux[k][3]>>)]],
     net |-> decl.net]

\* the Definition add_decl_annotator_rule makes of a Declaration:
\* annotator(ann(agent(posts), type)) ~ agent(ann(pre, type) ...)
annotator_rule(annotator_id, ann_id, decl) ==
    [left |-> [id |-> annotator_id,
               aux |-> <<Agent(ann_id,
                          <<Agent(decl.agent.id,
                                  [k \in 1..Len(decl.agent.aux) |-> decl.agent.aux[k][2]]),
                            Agent(decl.type.id, decl.type.aux)>>)>>],
     right |-> [id |-> decl.agent.id,
                aux |-> [k \in 1..Len(decl.agent.aux) |->
                            Agent(ann_id, <<decl.agent.aux[k][1], decl.agent.aux[k][3]>>)]],
     net |-> decl.net]

\* get_annotator_id, then get_ann_id for the left pattern; the calls of
\* get_ann_id for the ports of the right pattern find the kind in the scope
add_decl_annotator_rule(b, decl) ==
    Let(get_annotator_id(b), LAMBDA r1 :
    Let(get_ann_id(r1.b), LAMBDA r2 :
        [r2.b EXCEPT !.definitions = Append(@, annotator_rule(r1.id, r2.id, decl))]))

RECURSIVE load_pairs(_, _)
\* the loop of the Check arm: load a, load b, push the pair
load_pairs(b, pairs) ==
    IF pairs = <<>>
    THEN b
    ELSE Let(load_tree(b, Head(pairs)[1]), LAMBDA a :
         Let(load_tree(a.b, Head(pairs)[2]), LAMBDA c :
             load_pairs([c.b EXCEPT !.net.interactions = Append(@, <<a.tree, c.tree>>)],
                        Tail(pairs))))

load_decl(b, st) ==
    Let(load_typed_match(b, st.agent), LAMBDA a :
    Let(load_trees(a.b, st.vars), LAMBDA i :
    Let(load_untyped_match(i.b, st.type), LAMBDA t :
    Let([agent |-> a.m, intermediate |-> i.trees, type |-> t.m, net |-> t.b.net], LAMBDA decl :
    Let(add_decl_annotator_rule([t.b EXCEPT !.net = EmptyNet], decl), LAMBDA b2 :
        [b2 EXCEPT !.declarations = Append(@, decl)])))))

load_check(b, st) ==
    Let(load_pairs(b, st.interactions), LAMBDA b2 :
        [b2 EXCEPT !.net = EmptyNet, !.checks = Append(@, <<st.positive, b2.net>>)])

load_statement(b, st) ==
    [(CASE st.kind = "Decl" -> load_decl(b, st)
        [] st.kind = "Def" -> load_def(b, st)
        [] st.kind = "Check" -> load_check(b, st))
     EXCEPT !.var_scope = << >>]

RECURSIVE load_book(_, _)
load_book(b, stmts) ==
    IF stmts = <<>> THEN b ELSE load_book(load_statement(b, Head(stmts)), Tail(stmts))

RECURSIVE insert_rules_overwriting(_, _)
\* a second rule for an ordered pair replaces the first
insert_rules_overwriting(isys, defs) ==
    IF defs = <<>>
    THEN [ok |-> TRUE, rules |-> isys]
    ELSE LET i == Head(defs)
             key == <<i.left.id, i.right.id>>
         IN  IF i.net.interactions # <<>>
             THEN [ok |-> FALSE, rules |-> isys]
             ELSE insert_rules_overwriting(
                      (key :> [left_ports |-> i.left.aux, right_ports |-> i.right.aux]) @@ isys,
                      Tail(defs))

RECURSIVE insert_rules(_, _)
\* the loop of build_interaction_system: the rule table, or the failed assert
insert_rules(isys, defs) ==
    IF defs = <<>>
    THEN [ok |-> TRUE, rules |-> isys]
    ELSE LET i == Head(defs)
             key == <<i.left.id, i.right.id>>
         IN  IF key \in DOMAIN isys
             THEN [ok |-> FALSE, rules |-> isys]
             ELSE IF i.net.interactions # <<>>
             THEN [ok |-> FALSE, rules |-> isys]
             ELSE insert_rules((key :> [left_ports |-> i.left.aux, right_ports |-> i.right.aux]) @@ isys,
                               Tail(defs))

build_interaction_system(b) == insert_rules(<< >>, b.definitions)

\* the Program, or ok = FALSE when an assert of build_interaction_system fails
finish(b) ==
    Let(build_interaction_system(b), LAMBDA sys :
    Let(get_annotator_id(b), LAMBDA r1 :
    Let(get_ann_id(r1.b), LAMBDA r2 :
        [ok |-> sys.ok,
         system |-> sys.rules,
         agent_scope |-> r2.b.agent_scope,
         agents |-> r2.b.agents,
         declarations |-> r2.b.declarations,
         definitions |-> r2.b.definitions,
         checks |-> r2.b.checks,
         annotator_id |-> r1.id,
         ann_id |-> r2.id])))

(***************************************************************************)
(* The engine on its own: a client builds a Net (NumVars calls of new_var, *)
(* pending pairs pushed on the public field interactions), attaches a rule *)
(* table and calls normal().                                               *)
(***************************************************************************)
\* agent kinds of the engine runs
KA == 1   \* one auxiliary port
KB == 2   \* no auxiliary port
KP == 3   \* two auxiliary ports; occurs in rule templates only
EngineArity == (KA :> 1) @@ (KB :> 0) @@ (KP :> 2)
ClientAgents == {KA, KB}

\* the variables of rule templates come from the store of another net
TX == <<1, 1>>

\* A(t1) ~ A(t2) wires t1 to t2; B ~ A(t) duplicates a wire into P
SysLinear ==
    (<<KA, KA>> :> [left_ports |-> <<Var(TX)>>, right_ports |-> <<Var(TX)>>])
    @@ (<<KB, KA>> :> [left_ports |-> <<>>, right_ports |-> <<Agent(KP, <<Var(TX), Var(TX)>>)>>])
\* a template variable with three occurrences
SysTriple ==
    (<<KA, KA>> :> [left_ports |-> <<Agent(KP, <<Var(TX), Var(TX)>>)>>, right_ports |-> <<Var(TX)>>])
\* a rule under (A, B) and another under (B, A): A(t) ~ B gives B ~ t,
\* B ~ A(t) gives A(x) ~ t
SysBoth ==
    (<<KA, KB>> :> [left_ports |-> <<Agent(KB, <<>>)>>, right_ports |-> <<>>])
    @@ (<<KB, KA>> :> [left_ports |-> <<>>, right_ports |-> <<Agent(KA, <<Var(TX)>>)>>])
EngineSystems == {SysLinear, SysTriple, SysBoth}

\* the store after k calls of new_var on a new net: k unbound slots, none freed
ClientStore(k) ==
    [slots |-> [i \in 1..k |-> [version |-> 1, value |-> None]], free |-> <<>>]

RECURSIVE TreesOfSize(_, _)
RECURSIVE SeqsOfSize(_, _, _)
\* the trees of n nodes over the client's agents and its first ids variables
TreesOfSize(ids, n) ==
    IF n < 1 THEN {}
    ELSE (IF n = 1 THEN {Var(<<i, 1>>) : i \in 1..ids} ELSE {})
         \cup UNION {{Agent(g, kids) : kids \in SeqsOfSize(ids, EngineArity[g], n - 1)} : g \in ClientAgents}
\* the sequences of k trees of n nodes in all
SeqsOfSize(ids, k, n) ==
    IF k = 0 THEN (IF n = 0 THEN {<<>>} ELSE {})
    ELSE UNION {{<<t>> \o s : t \in TreesOfSize(ids, m), s \in SeqsOfSize(ids, k - 1, n - m)} : m \in 1..(n - (k - 1))}

PairUp(s) == [k \in 1..(Len(s) \div 2) |-> <<s[2 * k - 1], s[2 * k]>>]

\* the pending queues a client can push over its first ids variables
ClientPendings(ids) ==
    UNION {UNION {{PairUp(s) : s \in SeqsOfSize(ids, 2 * k, n)} : n \in 0..MaxNodes} : k \in 0..MaxPending}

\* the net a client hands to normal() after k calls of new_var and the pushes p
ClientNet(k, p) ==
    [interactions |-> p, vars |-> ClientStore(k), stuck |-> <<>>, panic |-> FALSE]

NoCall == [a |-> None, b |-> None, pre |-> EmptyNet]
NoSubst == [tree |-> None, ref |-> None, again |-> None, out |-> None, pre |-> EmptyNet]
NoInst == [stack |-> <<>>, t |-> 0, d |-> 0, out |-> None, deepest |-> 0]

InitNet ==
    /\ pc = "normal"
    /\ \E k \in 0..NumVars : \E p \in ClientPendings(k) : net = ClientNet(k, p)
    /\ system \in EngineSystems
    /\ last = NoCall
    /\ fresh_log = <<>>
    /\ gc = <<>>
    /\ book = <<>>
    /\ loaded = 0
    /\ builder = NewBuilder
    /\ program = None
    /\ checks = <<>>
    /\ result = None
    /\ stuck_pair = None
    /\ complete = None
    /\ subst = NoSubst
    /\ inst = NoInst

UsesRule(sys, a, b) ==
    IsAgent(a) /\ IsAgent(b) /\ (HasRule(sys, a.id, b.id) \/ HasRule(sys, b.id, a.id))

\* one turn of the loop of normal(): pop a pair, interact
NormalStep ==
    /\ pc = "normal"
    /\ net.interactions # <<>>
    /\ LET k == Len(net.interactions)
           a == net.interactions[k][1]
           b == net.interactions[k][2]
           popped == [net EXCEPT !.interactions = SubSeq(@, 1, k - 1)]
           after == interact(system, popped, a, b)
       IN  /\ net' = after
           /\ last' = [a |-> Some(a), b |-> Some(b), pre |-> popped]
           /\ fresh_log' = IF UsesRule(system, a, b)
                           THEN Append(fresh_log, SmKeys(after.vars) \ SmKeys(popped.vars))
                           ELSE fresh_log
           /\ pc' = IF after.panic THEN "panicked" ELSE "normal"
    /\ UNCHANGED <<system, gc>>
    /\ UNCHANGED progvars

\* the loop of normal() ends when pop() returns None
NormalReturn ==
    /\ pc = "normal"
    /\ net.interactions = <<>>
    /\ pc' = "returned"
    /\ UNCHANGED <<system, net, last, fresh_log, gc>>
    /\ UNCHANGED progvars

NextNet == NormalStep \/ NormalReturn

SpecNet == InitNet /\ [][NextNet]_vars

(***************************************************************************)
(* The engine started on a wired net: every variable of the store unbound  *)
(* with two occurrences in the pending trees, every rule matched to the    *)
(* arity of its two kinds, every template variable with two occurrences.   *)
(***************************************************************************)
RECURSIVE ArityKept(_)
ArityKept(t) ==
    IsVar(t) \/ (/\ Len(t.aux) = EngineArity[t.id]
                 /\ \A k \in 1..Len(t.aux) : ArityKept(t.aux[k]))

WiredRule(sys, key) ==
    LET ports == sys[key].left_ports \o sys[key].right_ports
    IN  /\ Len(sys[key].left_ports) = EngineArity[key[1]]
        /\ Len(sys[key].right_ports) = EngineArity[key[2]]
        /\ \A k \in 1..Len(ports) : ArityKept(ports[k])
        /\ \A v \in UNION {TreeVars(ports[k]) : k \in 1..Len(ports)} :
              SumSeq([k \in 1..Len(ports) |-> VarOccs(ports[k], v)]) = 2

WiredSystem(sys) == \A key \in DOMAIN sys : WiredRule(sys, key)

WiredNet(n) ==
    \A v \in SmKeys(n.vars) :
        /\ ~IsSome(SmGet(n.vars, v))
        /\ SumSeq([k \in 1..Len(n.interactions) |->
                     VarOccs(n.interactions[k][1], v) + VarOccs(n.interactions[k][2], v)]) = 2

InitWire == InitNet /\ WiredNet(net) /\ WiredSystem(system)

SpecWire == InitWire /\ [][NextNet]_vars

(***************************************************************************)
(* substitute_ref and substitute called on a tree of a net: the store has   *)
(* NumVars slots, each removed, unbound or bound; the bindings have no      *)
(* cycle (on a cycle neither function returns).                             *)
(***************************************************************************)
SubstLeaves == {Var(<<i, 1>>) : i \in 1..NumVars} \cup {Agent(KB, <<>>)}
SubstBindings == SubstLeaves \cup {Agent(KA, <<l>>) : l \in SubstLeaves}
SubstTrees == SubstBindings \cup {Agent(KP, <<l, r>>) : l, r \in SubstLeaves}

\* what a slot is: removed, or kept with None (unbound) or Some(tree) (bound)
SlotChoices ==
    {[removed |-> TRUE, value |-> None]}
    \cup {[removed |-> FALSE, value |-> v] : v \in {None} \cup {Some(t) : t \in SubstBindings}}

RECURSIVE SubstStore(_, _)
\* the store of NumVars slots set as f says, from slot i on
SubstStore(f, i) ==
    IF i > NumVars
    THEN ClientStore(NumVars)
    ELSE IF f[i].removed
    THEN SmRemove(SubstStore(f, i + 1), <<i, 1>>)
    ELSE SmSet(SubstStore(f, i + 1), <<i, 1>>, f[i].value)

\* no variable is reached from its own binding
Acyclic(f) ==
    \E rank \in [1..NumVars -> 1..NumVars] :
        \A i \in 1..NumVars :
            IsSome(f[i].value) =>
                \A v \in TreeVars(f[i].value[1]) : rank[i] < rank[v[1]]

InitSubst ==
    /\ pc = "subst"
    /\ \E f \in [1..NumVars -> SlotChoices] :
          /\ Acyclic(f)
          /\ net = [interactions |-> <<>>, vars |-> SubstStore(f, 1), stuck |-> <<>>, panic |-> FALSE]
    /\ \E t \in SubstTrees : subst = [NoSubst EXCEPT !.tree = Some(t)]
    /\ system = << >>
    /\ last = NoCall
    /\ fresh_log = <<>>
    /\ gc = <<>>
    /\ book = <<>>
    /\ loaded = 0
    /\ builder = NewBuilder
    /\ program = None
    /\ checks = <<>>
    /\ result = None
    /\ stuck_pair = None
    /\ complete = None
    /\ inst = NoInst

othervars ==
    <<system, last, fresh_log, gc, book, loaded, builder, program, checks, result, stuck_pair, complete, inst>>

\* net.substitute_ref(&tree)
SubstituteRef ==
    /\ pc = "subst"
    /\ subst' = [subst EXCEPT !.ref = Some(substitute_ref(net, subst.tree[1]))]
    /\ pc' = "ref"
    /\ UNCHANGED net
    /\ UNCHANGED othervars

\* net.substitute_ref(&r) on the tree r the first call returned
SubstituteRefAgain ==
    /\ pc = "ref"
    /\ subst' = [subst EXCEPT !.again = Some(substitute_ref(net, subst.ref[1]))]
    /\ pc' = "again"
    /\ UNCHANGED net
    /\ UNCHANGED othervars

\* net.substitute(tree)
Substitute ==
    /\ pc = "again"
    /\ Let(substitute(net, subst.tree[1]), LAMBDA r :
           /\ net' = r.net
           /\ subst' = [subst EXCEPT !.out = Some(r.tree), !.pre = net]
           /\ pc' = IF r.net.panic THEN "panicked" ELSE "substituted")
    /\ UNCHANGED othervars

NextSubst == SubstituteRef \/ SubstituteRefAgain \/ Substitute

SpecSubst == InitSubst /\ [][NextSubst]_vars

(***************************************************************************)
(* main.rs: Program.                                                       *)
(***************************************************************************)
Ok == [ok |-> TRUE, err |-> <<>>]
Err(msg) == [ok |-> FALSE, err |-> msg]

\* the first name of the scope, whatever its id
lookup_agent_any(p, id) ==
    IF DOMAIN p.agent_scope = {} THEN None ELSE Some(CHOOSE n \in DOMAIN p.agent_scope : TRUE)

\* None when no name of the scope maps to id; ids are given to one name each
lookup_agent(p, id) ==
    LET names == {n \in DOMAIN p.agent_scope : p.agent_scope[n] = id}
    IN  IF names = {} THEN None ELSE Some(CHOOSE n \in names : TRUE)

RECURSIVE annotate_left_only(_, _, _)
\* only the left side of a pair goes through the annotator
annotate_left_only(p, n, pairs) ==
    IF pairs = <<>>
    THEN n
    ELSE LET r == new_var(n)
         IN  annotate_left_only(p,
                 [r.net EXCEPT !.interactions =
                     @ \o << <<Head(pairs)[1], Agent(p.annotator_id, <<Var(r.id)>>)>>,
                             <<Head(pairs)[2], Var(r.id)>> >>],
                 Tail(pairs))

RECURSIVE annotate(_, _, _)
\* the first loop of typecheck_net: one fresh variable per pair, the pair
\* split into (a, annotator(v)) and (b, annotator(v))
annotate(p, n, pairs) ==
    IF pairs = <<>>
    THEN n
    ELSE LET r == new_var(n)
             w == Agent(p.annotator_id, <<Var(r.id)>>)
         IN  annotate(p,
                      [r.net EXCEPT !.interactions =
                          @ \o << <<Head(pairs)[1], w>>, <<Head(pairs)[2], w>> >>],
                      Tail(pairs))

RECURSIVE instances_from(_, _, _, _)
\* get_nth_instances, decls being the declarations the loop has yet to visit
instances_from(p, decls, t, d) ==
    IF decls = <<>>
    THEN <<>>
    ELSE LET i == Head(decls)
         IN  (IF Len(i.intermediate) = d
              THEN (IF i.type.id = t THEN <<i.agent.id>> ELSE <<>>)
                   \o (IF i.agent.id = t
                       THEN instances_from(p, p.declarations, i.type.id, d + 1)
                       ELSE <<>>)
              ELSE <<>>)
             \o instances_from(p, Tail(decls), t, d)

get_nth_instances(p, t, d) == instances_from(p, p.declarations, t, d)

\* only the order (a, b) is looked for
require_defined_one_order(p, a, b) ==
    IF ~(\E k \in 1..Len(p.definitions) :
            p.definitions[k].left.id = a /\ p.definitions[k].right.id = b)
    THEN Err(<<"Undefined interaction between", lookup_agent(p, a)[1], lookup_agent(p, b)[1]>>)
    ELSE Ok

require_defined(p, a, b) ==
    IF ~(\E k \in 1..Len(p.definitions) :
            \/ p.definitions[k].left.id = a /\ p.definitions[k].right.id = b
            \/ p.definitions[k].left.id = b /\ p.definitions[k].right.id = a)
    THEN Err(<<"Undefined interaction between", lookup_agent(p, a)[1], lookup_agent(p, b)[1]>>)
    ELSE Ok

\* iproduct!(l, r): the pairs, the first iterator outermost
iproduct(l, r) ==
    [k \in 1..(Len(l) * Len(r)) |-> <<l[((k - 1) \div Len(r)) + 1], r[((k - 1) % Len(r)) + 1]>>]

RECURSIVE require_all(_, _)
\* the inner loop of check_completeness: the first error ends it
require_all(p, pairs) ==
    IF pairs = <<>>
    THEN Ok
    ELSE LET r == require_defined(p, Head(pairs)[1], Head(pairs)[2])
         IN  IF r.ok THEN require_all(p, Tail(pairs)) ELSE r

RECURSIVE completeness_from(_, _)
completeness_from(p, defs) ==
    IF defs = <<>>
    THEN Ok
    ELSE LET r == require_all(p, iproduct(get_nth_instances(p, Head(defs).left.id, 0),
                                          get_nth_instances(p, Head(defs).right.id, 0)))
         IN  IF r.ok THEN completeness_from(p, Tail(defs)) ELSE r

check_completeness(p) == completeness_from(p, p.definitions)

(***************************************************************************)
(* The books main() is run on: up to MaxBook statements of Corpus, in the   *)
(* order of Corpus.                                                        *)
(***************************************************************************)
SZ == SAgent("Z", <<>>)
SNat == SAgent("Nat", <<>>)
SS(t) == SAgent("S", <<t>>)

\* the statements of the scenarios
DeclZ == Decl(SMatch("Z", <<>>), <<>>, SMatch("Nat", <<>>))
DeclS == Decl(SMatch("S", << <<SVariable("a"), SVariable("a"), SNat>> >>), <<>>, SMatch("Nat", <<>>))
DefZZ == Def(SMatch("Z", <<>>), SMatch("Z", <<>>))
DefNatNat == Def(SMatch("Nat", <<>>), SMatch("Nat", <<>>))
CheckZNat == Check(TRUE, << <<SZ, SNat>> >>)

\* a declaration of two ports, each with a pre-state and a post-state of its own
DeclP ==
    Decl(SMatch("P", << <<SVariable("a"), SVariable("b"), SNat>>,
                        <<SVariable("c"), SVariable("d"), SAgent("Bool", <<>>)>> >>),
         <<>>, SMatch("Nat", <<>>))
\* a definition and a declaration with an inline with-redex
DefWith == Def(SMatch("S", <<SWith(SVariable("a"), SZ, SZ)>>), SMatch("Z", <<>>))
DeclWith == Decl(SMatch("Q", <<>>), <<>>, SMatch("Bool", <<SWith(SZ, SZ, SZ)>>))
CheckZSZ == Check(FALSE, << <<SZ, SS(SZ)>> >>)
\* a check of a tree against a variable
CheckSZVar == Check(TRUE, << <<SS(SZ), SVariable("y")>> >>)
\* a check with an inline with-redex
CheckWith == Check(FALSE, << <<SWith(SZ, SZ, SZ), SNat>> >>)

Corpus ==
    << \* Z() : Nat
       DeclZ,
       \* S(a -> a : Nat) : Nat
       DeclS,
       \* T() : Bool
       Decl(SMatch("T", <<>>), <<>>, SMatch("Bool", <<>>)),
       \* Z() : Nat, once more
       DeclZ,
       \* P(a -> b : Nat  c -> d : Bool) : Nat
       DeclP,
       \* Q() : Bool(Z() with Z() ~ Z())
       DeclWith,
       \* Z() ~ Z()
       DefZZ,
       \* S(a) ~ S(a)
       Def(SMatch("S", <<SVariable("a")>>), SMatch("S", <<SVariable("a")>>)),
       \* Z() ~ Z(), once more
       DefZZ,
       \* T() ~ Z()
       Def(SMatch("T", <<>>), SMatch("Z", <<>>)),
       \* Z() ~ T()
       Def(SMatch("Z", <<>>), SMatch("T", <<>>)),
       \* S(a with Z() ~ Z()) ~ Z()
       DefWith,
       \* Nat() ~ Nat()
       DefNatNat,
       \* Nat() ~ Bool()
       Def(SMatch("Nat", <<>>), SMatch("Bool", <<>>)),
       \* check yes Z() ~ Nat()
       CheckZNat,
       \* check no Z() ~ S(Z())
       CheckZSZ,
       \* check no Z() ~ Nat()
       Check(FALSE, << <<SZ, SNat>> >>),
       \* check yes Z() ~ Z()
       Check(TRUE, << <<SZ, SZ>> >>),
       \* check no Z() ~ Z()
       Check(FALSE, << <<SZ, SZ>> >>),
       \* check yes S(Z()) ~ S(Z())
       Check(TRUE, << <<SS(SZ), SS(SZ)>> >>),
       \* check no Z() with Z() ~ Z() ~ Nat()
       CheckWith,
       \* check yes S(Z()) ~ y
       CheckSZVar >>

\* Scenarios A, B and C of the specification
ScenarioA == <<DeclZ, CheckZNat>>
ScenarioB == <<DeclZ, DeclS, CheckZSZ>>
ScenarioC == <<DeclZ, DeclS, DefZZ, DefNatNat>>

RECURSIVE SubBook(_, _)
SubBook(I, k) ==
    IF k > Len(Corpus)
    THEN <<>>
    ELSE (IF k \in I THEN <<Corpus[k]>> ELSE <<>>) \o SubBook(I, k + 1)

Books == {SubBook(I, 1) : I \in {J \in SUBSET (1..Len(Corpus)) : Cardinality(J) <= MaxBook}}

(***************************************************************************)
(* main(): load_book, finish, check_well_typedness, check_completeness.    *)
(***************************************************************************)
Init ==
    /\ pc = "load"
    /\ book \in Books
    /\ loaded = 0
    /\ builder = NewBuilder
    /\ program = None
    /\ system = << >>
    /\ net = EmptyNet
    /\ last = NoCall
    /\ fresh_log = <<>>
    /\ gc = <<>>
    /\ checks = <<>>
    /\ result = None
    /\ stuck_pair = None
    /\ complete = None
    /\ subst = NoSubst
    /\ inst = NoInst

\* one turn of the loop of load_book
LoadStatement ==
    /\ pc = "load"
    /\ loaded < Len(book)
    /\ builder' = load_statement(builder, book[loaded + 1])
    /\ loaded' = loaded + 1
    /\ UNCHANGED <<pc, system, net, last, fresh_log, gc, book, program, checks, result, stuck_pair, complete, subst, inst>>

\* finish(), and check_well_typedness taking the checks out of the program
Finish ==
    /\ pc = "load"
    /\ loaded = Len(book)
    /\ Let(finish(builder), LAMBDA p :
           IF p.ok
           THEN /\ program' = Some(p)
                /\ system' = p.system
                /\ checks' = p.checks
                /\ pc' = "checks"
           ELSE /\ pc' = "panicked"
                /\ UNCHANGED <<program, system, checks>>)
    /\ UNCHANGED <<net, last, fresh_log, gc, book, loaded, builder, result, stuck_pair, complete, subst, inst>>

\* check_well_typedness calls typecheck_net, which annotates the pairs
TypecheckBegin ==
    /\ pc = "checks"
    /\ checks # <<>>
    /\ LET n == Head(checks)[2]
       IN  net' = annotate(program[1], [n EXCEPT !.interactions = <<>>], n.interactions)
    /\ gc' = <<>>
    /\ last' = NoCall
    /\ fresh_log' = <<>>
    /\ result' = None
    /\ stuck_pair' = None
    /\ pc' = "typecheck"
    /\ UNCHANGED <<system, book, loaded, builder, program, checks, complete, subst, inst>>

\* the stuck set is never looked at
next_pop_pending_only(n) == IF n.interactions # <<>> THEN "pending" ELSE "none"

\* net.interactions.pop().or_else(|| net.stuck.pop()): where the next pair of
\* the loop comes from, "none" when the while let fails
next_pop(n) ==
    IF n.interactions # <<>> THEN "pending"
    ELSE IF n.stuck # <<>> THEN "stuck"
    ELSE "none"

\* a turn of the loop of typecheck_net that pops a pending pair
TypecheckPending ==
    /\ pc = "typecheck"
    /\ next_pop(net) = "pending"
    /\ LET k == Len(net.interactions)
           a == net.interactions[k][1]
           b == net.interactions[k][2]
           popped == [net EXCEPT !.interactions = SubSeq(@, 1, k - 1)]
           after == interact(system, popped, a, b)
       IN  /\ net' = after
           /\ last' = [a |-> Some(a), b |-> Some(b), pre |-> popped]
           /\ fresh_log' = IF UsesRule(system, a, b)
                           THEN Append(fresh_log, SmKeys(after.vars) \ SmKeys(popped.vars))
                           ELSE fresh_log
           /\ pc' = IF after.panic THEN "panicked" ELSE "typecheck"
    /\ UNCHANGED <<system, gc, result, stuck_pair>>
    /\ UNCHANGED <<book, loaded, builder, program, checks, complete, subst, inst>>

\* the two pops taken from the front of the wrapper's aux trees
ann_split_from_front(aux) == [witness |-> aux[1], payload |-> aux[2]]

\* gc.push(aux.pop()); aux.pop().unwrap(): the last aux tree goes to gc, the
\* one before it is the payload
ann_split(aux) == [witness |-> aux[Len(aux)], payload |-> aux[Len(aux) - 1]]

\* a turn of the loop of typecheck_net that pops a stuck pair
TypecheckStuck ==
    /\ pc = "typecheck"
    /\ next_pop(net) = "stuck"
    /\ LET k == Len(net.stuck)
           p == program[1]
           popped == [net EXCEPT !.stuck = SubSeq(@, 1, k - 1)]
           swap == net.stuck[k][2].id = p.ann_id
           a == IF swap THEN net.stuck[k][2] ELSE net.stuck[k][1]
           b == IF swap THEN net.stuck[k][1] ELSE net.stuck[k][2]
       IN  /\ stuck_pair' = Some(<<a, b>>)
           /\ IF a.id = p.ann_id
              THEN IF Len(a.aux) < 2
                   THEN \* aux.pop().unwrap() on an empty vector
                        /\ pc' = "panicked"
                        /\ net' = popped
                        /\ UNCHANGED <<gc, last, fresh_log, result>>
                   ELSE LET payload == ann_split(a.aux).payload
                            after == interact(system, popped, payload, b)
                        IN  /\ gc' = Append(gc, ann_split(a.aux).witness)
                            /\ net' = after
                            /\ last' = [a |-> Some(payload), b |-> Some(b), pre |-> popped]
                            /\ fresh_log' = IF UsesRule(system, payload, b)
                                            THEN Append(fresh_log, SmKeys(after.vars) \ SmKeys(popped.vars))
                                            ELSE fresh_log
                            /\ pc' = IF after.panic THEN "panicked" ELSE "typecheck"
                            /\ UNCHANGED result
              ELSE /\ result' = Some(Err(<<"Undefined Interaction",
                                           lookup_agent(p, a.id)[1], lookup_agent(p, b.id)[1]>>))
                   /\ net' = popped
                   /\ last' = NoCall
                   /\ pc' = "verdict"
                   /\ UNCHANGED <<gc, fresh_log>>
    /\ UNCHANGED <<system, book, loaded, builder, program, checks, complete, subst, inst>>

\* the loop of typecheck_net ends and the stuck set is tested
TypecheckEnd ==
    /\ pc = "typecheck"
    /\ next_pop(net) = "none"
    /\ result' = Some(IF net.stuck # <<>> THEN Err(<<"Had stuck interactions">>) ELSE Ok)
    /\ pc' = "verdict"
    /\ UNCHANGED <<system, net, last, fresh_log, gc, book, loaded, builder, program, checks, stuck_pair, complete, subst, inst>>

\* every result is unwrapped as a success
unwraps_as_ok(should_check, res) == res.ok

\* res.unwrap() of a check yes, res.unwrap_err() of a check no, does not panic
unwraps(should_check, res) == IF ~should_check THEN ~res.ok ELSE res.ok

\* check_well_typedness unwraps the result the way the check asks
Verdict ==
    /\ pc = "verdict"
    /\ IF unwraps(Head(checks)[1], result[1])
       THEN /\ checks' = Tail(checks)
            /\ pc' = "checks"
       ELSE /\ pc' = "panicked"
            /\ UNCHANGED checks
    /\ UNCHANGED <<system, net, last, fresh_log, gc, book, loaded, builder, program, result, stuck_pair, complete, subst, inst>>

\* program.check_completeness().unwrap()
CheckCompleteness ==
    /\ pc = "checks"
    /\ checks = <<>>
    /\ complete' = Some(check_completeness(program[1]))
    /\ pc' = IF complete'[1].ok THEN "done" ELSE "panicked"
    /\ UNCHANGED <<system, net, last, fresh_log, gc, book, loaded, builder, program, checks, result, stuck_pair, subst, inst>>

Next ==
    \/ LoadStatement
    \/ Finish
    \/ TypecheckBegin
    \/ TypecheckPending
    \/ TypecheckStuck
    \/ TypecheckEnd
    \/ Verdict
    \/ CheckCompleteness

Spec == Init /\ [][Next]_vars

(***************************************************************************)
(* get_nth_instances followed call by call on the Program of a book of      *)
(* declarations.  A frame of the stack is a call: its kind t, its depth d,  *)
(* the index i of the declaration its loop visits next, its vector v.       *)
(***************************************************************************)
InstKinds == <<"A", "B">>

IndexNames == <<"x1", "x2", "x3", "x4">>
\* k index trees: x1 : x2 : ...
IndexTrees(k) == [j \in 1..k |-> SVariable(IndexNames[j])]

\* name() : x1 : .. : xk : type()
InstDecl(name, k, type) == Decl(SMatch(name, <<>>), IndexTrees(k), SMatch(type, <<>>))

\* the declarations a book may hold for the kind InstKinds[j]: none or one,
\* since finish() panics on two declarations of one constructor
InstChoices(j) ==
    {<<>>} \cup {<<InstDecl(InstKinds[j], k, InstKinds[h])>> :
                    k \in 0..MaxIndexes, h \in 1..Len(InstKinds)}

InstBooks == {a \o b : a \in InstChoices(1), b \in InstChoices(2)}

InitInst ==
    /\ pc = "load"
    /\ book \in InstBooks
    /\ loaded = 0
    /\ builder = NewBuilder
    /\ program = None
    /\ system = << >>
    /\ net = EmptyNet
    /\ last = NoCall
    /\ fresh_log = <<>>
    /\ gc = <<>>
    /\ checks = <<>>
    /\ result = None
    /\ stuck_pair = None
    /\ complete = None
    /\ subst = NoSubst
    /\ inst = NoInst

\* finish(), then a call of get_nth_instances(t, d) on the Program
InstFinish ==
    /\ pc = "load"
    /\ loaded = Len(book)
    /\ Let(finish(builder), LAMBDA p :
           IF p.ok
           THEN /\ program' = Some(p)
                /\ system' = p.system
                /\ pc' = "instances"
                /\ \E t \in 1..p.agents : \E d \in 0..MaxDepth :
                      inst' = [stack |-> <<[t |-> t, d |-> d, i |-> 1, v |-> <<>>]>>,
                               t |-> t, d |-> d, out |-> None, deepest |-> 1]
           ELSE /\ pc' = "panicked"
                /\ UNCHANGED <<program, system, inst>>)
    /\ UNCHANGED <<net, last, fresh_log, gc, book, loaded, builder, checks, result,
                   stuck_pair, complete, subst>>

instvars ==
    <<system, net, last, fresh_log, gc, book, loaded, builder, program, checks, result,
      stuck_pair, complete, subst>>

\* the recursive call is made at the depth of its caller
callee_depth_same(d) == d

\* self.get_nth_instances(i.r#type.id, d + 1)
callee_depth(d) == d + 1

\* the running call and the declaration its loop is at
TopFrame == inst.stack[Len(inst.stack)]
InLoop == pc = "instances" /\ inst.stack # <<>> /\ TopFrame.i <= Len(program[1].declarations)
ThisDecl == program[1].declarations[TopFrame.i]
\* if i.r#type.id == t { v.push(i.agent.id) }
Pushed1(f, i) == IF i.type.id = f.t THEN Append(f.v, i.agent.id) ELSE f.v
SetTop(f) == [inst.stack EXCEPT ![Len(inst.stack)] = f]

\* a turn of the loop on a declaration whose intermediate.len() is not d
InstSkip ==
    /\ InLoop
    /\ Len(ThisDecl.intermediate) # TopFrame.d
    /\ inst' = [inst EXCEPT !.stack = SetTop([TopFrame EXCEPT !.i = @ + 1])]
    /\ UNCHANGED pc
    /\ UNCHANGED instvars

\* a turn of the loop on a declaration of depth d of another constructor
InstVisit ==
    /\ InLoop
    /\ Len(ThisDecl.intermediate) = TopFrame.d
    /\ ThisDecl.agent.id # TopFrame.t
    /\ inst' = [inst EXCEPT !.stack =
                   SetTop([TopFrame EXCEPT !.i = @ + 1, !.v = Pushed1(TopFrame, ThisDecl)])]
    /\ UNCHANGED pc
    /\ UNCHANGED instvars

\* a turn of the loop on the declaration of depth d of the kind t itself:
\* the call of get_nth_instances on its type begins
InstCall ==
    /\ InLoop
    /\ Len(ThisDecl.intermediate) = TopFrame.d
    /\ ThisDecl.agent.id = TopFrame.t
    /\ Len(inst.stack) < MaxStack
    /\ inst' = [inst EXCEPT
                   !.stack = Append(
                       SetTop([TopFrame EXCEPT !.i = @ + 1, !.v = Pushed1(TopFrame, ThisDecl)]),
                       [t |-> ThisDecl.type.id, d |-> callee_depth(TopFrame.d), i |-> 1, v |-> <<>>]),
                   !.deepest = IF Len(inst.stack) + 1 > @ THEN Len(inst.stack) + 1 ELSE @]
    /\ UNCHANGED pc
    /\ UNCHANGED instvars

\* the loop of the running call is over: v.into_iter() goes to the caller,
\* which extends its vector with it
InstReturn ==
    /\ pc = "instances"
    /\ inst.stack # <<>>
    /\ TopFrame.i > Len(program[1].declarations)
    /\ IF Len(inst.stack) = 1
       THEN /\ inst' = [inst EXCEPT !.stack = <<>>, !.out = Some(TopFrame.v)]
            /\ pc' = "returned"
       ELSE /\ inst' = [inst EXCEPT !.stack =
                          [SubSeq(inst.stack, 1, Len(inst.stack) - 1)
                              EXCEPT ![Len(inst.stack) - 1].v = @ \o TopFrame.v]]
            /\ UNCHANGED pc
    /\ UNCHANGED instvars

\* the steps of a call of get_nth_instances
InstStep == InstSkip \/ InstVisit \/ InstCall \/ InstReturn

NextInst == LoadStatement \/ InstFinish \/ InstStep

\* a call that is running goes on running: it is sequential code
SpecInst == InitInst /\ [][NextInst]_vars /\ WF_vars(InstStep)

(***************************************************************************)
(* What the claims speak of, read off the recorded call and the net.       *)
(***************************************************************************)
CallMade == IsSome(last.a)
LastA == last.a[1]
LastB == last.b[1]

\* the latest interact call met two agents without a rule in either order
NoRuleCall ==
    /\ CallMade
    /\ IsAgent(LastA) /\ IsAgent(LastB)
    /\ ~HasRule(system, LastA.id, LastB.id)
    /\ ~HasRule(system, LastB.id, LastA.id)

\* the latest interact call applied a rule
RuleCall == CallMade /\ UsesRule(system, LastA, LastB)

\* the (template, actual) pairs of the latest apply_rule call
LastTemplates ==
    IF HasRule(system, LastA.id, LastB.id)
    THEN RulePairs(system[<<LastA.id, LastB.id>>], LastA.aux, LastB.aux)
    ELSE RulePairs(system[<<LastB.id, LastA.id>>], LastB.aux, LastA.aux)

\* the pending pairs pushed by the latest interact call
Pushed == SubSeq(net.interactions, Len(last.pre.interactions) + 1, Len(net.interactions))

RECURSIVE SameShape(_, _)
\* t and u differ at most in the ids of their variables
SameShape(t, u) ==
    IF IsVar(t) THEN IsVar(u)
    ELSE /\ IsAgent(u)
         /\ t.id = u.id
         /\ Len(t.aux) = Len(u.aux)
         /\ \A k \in 1..Len(t.aux) : SameShape(t.aux[k], u.aux[k])

RECURSIVE Renaming(_, _)
\* the pairs <<variable of t, variable of u at the same place>>, place by place
Renaming(t, u) ==
    IF IsVar(t) THEN <<<<t.var, u.var>>>>
    ELSE IF t.aux = <<>> THEN <<>>
    ELSE Renaming(t.aux[1], u.aux[1])
         \o Renaming(Agent(t.id, Tail(t.aux)), Agent(u.id, Tail(u.aux)))

\* every pushed pair is a template up to variable ids, paired with its actual
PushedMatchTemplates ==
    /\ Len(Pushed) = Len(LastTemplates)
    /\ \A k \in 1..Len(Pushed) :
          /\ SameShape(LastTemplates[k][1], Pushed[k][1])
          /\ Pushed[k][2] = LastTemplates[k][2]

\* template variable occurrences of the latest apply_rule call with their
\* new ids, in the order the call meets them
LastRenaming ==
    ConcatAll([k \in 1..Len(Pushed) |-> Renaming(LastTemplates[k][1], Pushed[k][1])])

\* the ids the latest apply_rule call gave to template variables
LastFresh == {LastRenaming[k][2] : k \in 1..Len(LastRenaming)}

NetTrees(n) ==
    ConcatAll([k \in 1..Len(n.interactions) |-> n.interactions[k]])
    \o ConcatAll([k \in 1..Len(n.stuck) |-> n.stuck[k]])
    \o ConcatAll([k \in 1..Len(n.vars.slots) |-> n.vars.slots[k].value])

\* the occurrences of variable v in the pending, stuck and bound trees of n
NetOccs(n, v) == SumSeq([k \in 1..Len(NetTrees(n)) |-> VarOccs(NetTrees(n)[k], v)])

NetVars(n) == UNION {TreeVars(NetTrees(n)[k]) : k \in 1..Len(NetTrees(n))}

IsPrefix(s, t) == Len(s) <= Len(t) /\ SubSeq(t, 1, Len(s)) = s

(***************************************************************************)
(* C4: when interact meets two agents A(auxA), B(auxB) and the rule table  *)
(* has no rule for (A, B) nor for (B, A), it appends exactly the pair      *)
(* (A(auxA), B(auxB)) to the stuck set and leaves the pending queue and    *)
(* the variable store as they were.                                        *)
(***************************************************************************)
C4_NoRuleGoesStuck ==
    NoRuleCall =>
        /\ net.stuck = Append(last.pre.stuck, <<LastA, LastB>>)
        /\ net.interactions = last.pre.interactions
        /\ net.vars = last.pre.vars

\* two agents of different kinds, one with an aux tree, went stuck
C4_Witness ==
    /\ NoRuleCall
    /\ LastA.id # LastB.id
    /\ LastA.aux # <<>>
    /\ net.stuck # <<>>

(***************************************************************************)
(* C5, as claimed: when interact meets variable v, bound to T, on the left *)
(* or on the right of the tree O, it pushes exactly the pending pair       *)
(* (T, O) and removes the slot of v.                                       *)
(***************************************************************************)
\* side s of the latest call is a variable bound before the call
BoundSide(s) ==
    /\ CallMade
    /\ IsVar(s)
    /\ SmContains(last.pre.vars, s.var)
    /\ IsSome(SmGet(last.pre.vars, s.var))

OccsOf(x) == SelectSeq([k \in 1..Len(LastRenaming) |-> k], LAMBDA k : LastRenaming[k][1] = x)

C7_FreshIdsAreNew ==
    /\ RuleCall =>
          /\ PushedMatchTemplates
          /\ LastFresh \cap SmKeys(last.pre.vars) = {}
          /\ LastFresh \cap (NetVars(last.pre) \cup TreeVars(LastA) \cup TreeVars(LastB)) = {}
          /\ fresh_log[Len(fresh_log)] = LastFresh
    /\ \A i, j \in 1..Len(fresh_log) : i # j => fresh_log[i] \cap fresh_log[j] = {}

\* two calls allocated, the later one in a slot that was removed before
C7_Witness ==
    /\ Len(fresh_log) >= 2
    /\ fresh_log[1] # {}
    /\ \E id \in fresh_log[Len(fresh_log)] : id[2] > 1

(***************************************************************************)
(* C8: normal() started on a wired net keeps the wires: in every state it  *)
(* reaches, a slot of the store is either unbound and its variable has two *)
(* occurrences across the pending, stuck and bound trees, or bound and its *)
(* variable has one occurrence left; a variable without a slot (removed    *)
(* when it resolved) occurs nowhere.                                       *)
(***************************************************************************)
C8_WireInvariant ==
    /\ ~net.panic
    /\ \A v \in SmKeys(net.vars) :
          NetOccs(net, v) = (IF IsSome(SmGet(net.vars, v)) THEN 1 ELSE 2)
    /\ \A v \in NetVars(net) : SmContains(net.vars, v)

\* a variable was resolved and its slot removed, and another variable is
\* bound with one occurrence left
C8_Witness ==
    /\ net.vars.free # <<>>
    /\ \E v \in SmKeys(net.vars) : IsSome(SmGet(net.vars, v)) /\ NetOccs(net, v) = 1

(***************************************************************************)
(* C9: when normal() returns the pending queue is empty; no step of        *)
(* normal() removes, reorders or changes an entry of the stuck set, which  *)
(* only grows by appending, and normal() may return with it non-empty.     *)
(***************************************************************************)
C9_NormalDrainsPendingKeepsStuck ==
    /\ [](pc = "returned" => net.interactions = <<>>)
    /\ [][IsPrefix(net.stuck, net'.stuck)]_vars

\* normal() returned with two stuck pairs
C9_Witness ==
    /\ pc = "returned"
    /\ Len(net.stuck) >= 2
(***************************************************************************)
(* The program main() checks, and the kinds of its errors.                  *)
(***************************************************************************)
TheProgram == program[1]
Returned == IsSome(result)
TheResult == result[1]
UndefinedInteraction(ea, eb) == Err(<<"Undefined Interaction", ea, eb>>)
\* name is the source name of the kind id
Names(name, id) ==
    name \in DOMAIN TheProgram.agent_scope /\ TheProgram.agent_scope[name] = id

(***************************************************************************)
(* C1 as claimed: for the program Z() : Nat; check yes Z() ~ Nat(),         *)
(* typecheck_net on the net of the check returns success.                  *)
(***************************************************************************)
C1_AsClaimed == (book = ScenarioA /\ Returned) => TheResult.ok

(***************************************************************************)
(* C1 as amended: for the program Z() : Nat; check yes Z() ~ Nat(),         *)
(* typecheck_net on the net of the check returns the undefined-interaction  *)
(* error that names Nat and __ANNOTATOR, and check_well_typedness aborts    *)
(* on it: the run gets neither to another check nor to check_completeness.  *)
(***************************************************************************)
C1_ScenarioAIsRejected ==
    book = ScenarioA =>
        /\ Returned => TheResult = UndefinedInteraction("Nat", "__ANNOTATOR")
        /\ (Returned /\ pc # "verdict") => pc = "panicked"
        /\ complete = None

\* the run of Scenario A aborted on the result of its check
C1_Witness ==
    /\ book = ScenarioA
    /\ Returned
    /\ pc = "panicked"

(***************************************************************************)
(* C2: for the program Z() : Nat; S(a -> a : Nat) : Nat;                    *)
(* check no Z() ~ S(Z()), typecheck_net on the net of the check returns the *)
(* undefined-interaction error, for a popped stuck pair neither side of     *)
(* which is of the annotation-wrapper kind, and check_well_typedness        *)
(* accepts that outcome of a check no.                                      *)
(***************************************************************************)
C2_ScenarioBIsRejected ==
    book = ScenarioB =>
        /\ pc # "panicked"
        /\ Returned =>
              /\ TheResult = UndefinedInteraction("Z", "S")
              /\ IsSome(stuck_pair)
              /\ stuck_pair[1][1].id # TheProgram.ann_id
              /\ stuck_pair[1][2].id # TheProgram.ann_id
              /\ Names("Z", stuck_pair[1][1].id)
              /\ Names("S", stuck_pair[1][2].id)

\* check_well_typedness went past the check of Scenario B
C2_Witness ==
    /\ book = ScenarioB
    /\ Returned
    /\ pc = "done"

(***************************************************************************)
(* C3: check_completeness returns success exactly when, for every          *)
(* Definition (left, right) and every pair (i, j) of                        *)
(* get_nth_instances(left, 0) x get_nth_instances(right, 0), some           *)
(* Definition is for (i, j) or for (j, i); otherwise it returns the error   *)
(* for the first such pair without one, definitions taken in order and the  *)
(* instances of left outermost, naming i and j by their source names.  For  *)
(* Scenario C it names Z and S.                                             *)
(***************************************************************************)
InstancePairs(def) ==
    LET l == get_nth_instances(TheProgram, def.left.id, 0)
        r == get_nth_instances(TheProgram, def.right.id, 0)
    IN  ConcatAll([x \in 1..Len(l) |-> [y \in 1..Len(r) |-> <<l[x], r[y]>>]])

RequiredPairs ==
    ConcatAll([k \in 1..Len(TheProgram.definitions) |-> InstancePairs(TheProgram.definitions[k])])

DefinedEitherOrder(i, j) ==
    \E k \in 1..Len(TheProgram.definitions) :
        LET d == TheProgram.definitions[k]
        IN  <<d.left.id, d.right.id>> \in {<<i, j>>, <<j, i>>}

Missing ==
    {k \in 1..Len(RequiredPairs) : ~DefinedEitherOrder(RequiredPairs[k][1], RequiredPairs[k][2])}

FirstMissing == RequiredPairs[CHOOSE k \in Missing : \A m \in Missing : k <= m]

C3_CompletenessVerdict ==
    IsSome(complete) =>
        /\ complete[1].ok <=> Missing = {}
        /\ complete[1].ok => complete[1] = Ok
        /\ ~complete[1].ok =>
              /\ Len(complete[1].err) = 3
              /\ complete[1].err[1] = "Undefined interaction between"
              /\ Names(complete[1].err[2], FirstMissing[1])
              /\ Names(complete[1].err[3], FirstMissing[2])
        /\ book = ScenarioC =>
              complete[1] = Err(<<"Undefined interaction between", "Z", "S">>)

\* check_completeness has run on Scenario C
C3_Witness ==
    /\ book = ScenarioC
    /\ IsSome(complete)
    /\ Missing # {}

(***************************************************************************)
(* C10: when typecheck_net pops a stuck pair neither side of which is of    *)
(* the annotation-wrapper kind, it returns at once the undefined-interaction *)
(* error that names the kinds of the two sides by their source names: the   *)
(* step that pops the pair leaves the pending pairs, the other stuck pairs, *)
(* the store and the garbage list as they were, and the net is not touched  *)
(* again before the next check.                                             *)
(***************************************************************************)
NeitherIsAnn ==
    /\ IsSome(stuck_pair)
    /\ stuck_pair[1][1].id # TheProgram.ann_id
    /\ stuck_pair[1][2].id # TheProgram.ann_id

C10_UndefinedInteractionReturnsAtOnce ==
    /\ [](NeitherIsAnn =>
            /\ pc # "typecheck"
            /\ Returned
            /\ ~TheResult.ok
            /\ Len(TheResult.err) = 3
            /\ TheResult.err[1] = "Undefined Interaction"
            /\ Names(TheResult.err[2], stuck_pair[1][1].id)
            /\ Names(TheResult.err[3], stuck_pair[1][2].id))
    /\ [][(pc = "typecheck" /\ Len(net'.stuck) < Len(net.stuck) /\ NeitherIsAnn') =>
            /\ net.stuck = Append(net'.stuck, stuck_pair'[1])
            /\ net'.interactions = net.interactions
            /\ net'.vars = net.vars
            /\ gc' = gc]_vars
    /\ [][(Returned /\ pc # "checks") => net' = net]_vars

\* the error was returned while other stuck pairs were waiting
C10_Witness ==
    /\ NeitherIsAnn
    /\ pc = "verdict"
    /\ net.stuck # <<>>
(***************************************************************************)
(* C11: check_well_typedness runs the checks in the order of the book; at   *)
(* the first check whose outcome is not the expected one (an error for a    *)
(* check yes, a success for a check no) the run aborts and no later check   *)
(* is run; when every outcome is the expected one all checks are run and    *)
(* the run goes on to check_completeness.                                   *)
(***************************************************************************)
IsSuffix(s, t) == Len(s) <= Len(t) /\ SubSeq(t, Len(t) - Len(s) + 1, Len(t)) = s

\* the outcome of the running check is not the one it expects
Unexpected ==
    \/ Head(checks)[1] /\ ~TheResult.ok
    \/ ~Head(checks)[1] /\ TheResult.ok

\* the checks of the statements of the book, in their order
BookChecks == SelectSeq(book, LAMBDA st : st.kind = "Check")

C11_ChecksRunInOrderUntilMismatch ==
    /\ [](IsSome(program) =>
            /\ IsSuffix(checks, TheProgram.checks)
            /\ Len(TheProgram.checks) = Len(BookChecks)
            /\ \A k \in 1..Len(BookChecks) : TheProgram.checks[k][1] = BookChecks[k].positive)
    /\ [](pc \in {"typecheck", "verdict"} => checks # <<>>)
    /\ [][(pc = "checks" /\ pc' = "typecheck") =>
            LET pairs == Head(checks)[2].interactions
            IN  /\ checks' = checks
                /\ Len(net'.interactions) = 2 * Len(pairs)
                /\ \A k \in 1..Len(pairs) :
                      /\ net'.interactions[2 * k - 1][1] = pairs[k][1]
                      /\ net'.interactions[2 * k][1] = pairs[k][2]]_vars
    /\ [][pc = "verdict" =>
            IF Unexpected
            THEN pc' = "panicked" /\ checks' = checks
            ELSE pc' = "checks" /\ checks' = Tail(checks)]_vars
    /\ [][pc # "panicked"]_vars
    /\ []((IsSome(complete) \/ pc = "done") => checks = <<>>)

\* the run aborted on a check with another check still to run
C11_Witness ==
    /\ pc = "panicked"
    /\ Returned
    /\ Len(checks) >= 2
(***************************************************************************)
(* C12: when two of the Definitions finish() is given, written in the book  *)
(* or made from a Declaration, have the same ordered pair                   *)
(* (left.id, right.id), finish() panics and no Program is produced.         *)
(***************************************************************************)
KeyOf(def) == <<def.left.id, def.right.id>>

DuplicateKey(defs) ==
    \E j, k \in 1..Len(defs) : j # k /\ KeyOf(defs[j]) = KeyOf(defs[k])

Finished == pc # "load"

C12_DuplicatePairIsFatal ==
    (Finished /\ DuplicateKey(builder.definitions)) =>
        /\ program = None
        /\ pc = "panicked"

\* finish() panicked on a duplicate pair alone: every captured net is empty
C12_Witness ==
    /\ Finished
    /\ DuplicateKey(builder.definitions)
    /\ \A k \in 1..Len(builder.definitions) : builder.definitions[k].net.interactions = <<>>
    /\ pc = "panicked"
(***************************************************************************)
(* C13 as claimed: in the rule table of every Program finish() produces,    *)
(* no two distinct kinds A, B have both a rule under (A, B) and a rule      *)
(* under (B, A).                                                            *)
(***************************************************************************)
C13_AsClaimed ==
    IsSome(program) =>
        \A key \in DOMAIN TheProgram.system :
            key[1] # key[2] => <<key[2], key[1]>> \notin DOMAIN TheProgram.system
(***************************************************************************)
(* C14: when the captured net of any Definition finish() is given holds an  *)
(* interaction, finish() panics and no Program is produced; the Definition  *)
(* made from a Declaration carries the net of the Declaration, so a book    *)
(* with a Declaration or Definition statement that contains a with-redex    *)
(* never yields a Program.                                                  *)
(***************************************************************************)
RECURSIVE HasWith(_)
HasWith(tree) ==
    IF "vname" \in DOMAIN tree THEN FALSE
    ELSE IF "redex" \in DOMAIN tree THEN TRUE
    ELSE \E k \in 1..Len(tree.aux) : HasWith(tree.aux[k])

StatementHasWith(st) ==
    LET trees == IF st.kind = "Decl"
                 THEN ConcatAll(st.agent.aux) \o st.vars \o st.type.aux
                 ELSE st.left.aux \o st.right.aux
    IN  \E k \in 1..Len(trees) : HasWith(trees[k])

BookHasWith ==
    \E k \in 1..Len(book) : book[k].kind \in {"Decl", "Def"} /\ StatementHasWith(book[k])

CapturedInteraction ==
    \E k \in 1..Len(builder.definitions) : builder.definitions[k].net.interactions # <<>>

C14_CapturedInteractionIsFatal ==
    Finished =>
        /\ BookHasWith => CapturedInteraction
        /\ CapturedInteraction => (program = None /\ pc = "panicked")

\* finish() panicked on the with-redex of a Declaration alone
C14_Witness ==
    /\ Finished
    /\ \E k \in 1..Len(book) : book[k] = DeclWith
    /\ \A k \in 1..Len(book) : book[k] # DefWith
    /\ ~DuplicateKey(builder.definitions)
    /\ pc = "panicked"
(***************************************************************************)
(* C15: on a net whose bindings have no cycle, substitute_ref applied to    *)
(* the tree substitute_ref returned gives that tree again, and a call of    *)
(* substitute_ref leaves the store, the pending queue and the stuck set as  *)
(* they were.                                                               *)
(***************************************************************************)
SubstituteRefKeepsNet ==
    pc \in {"subst", "ref"} =>
        /\ net'.vars = net.vars
        /\ net'.interactions = net.interactions
        /\ net'.stuck = net.stuck

C15_SubstituteRefIdempotent ==
    /\ [](IsSome(subst.again) => subst.again = subst.ref)
    /\ [][SubstituteRefKeepsNet]_vars

\* both calls were made on a tree in which a binding was followed
C15_Witness ==
    /\ IsSome(subst.again)
    /\ subst.ref # subst.tree

(***************************************************************************)
(* C16 as claimed: substitute(t) returns the tree substitute_ref(t) returns *)
(* on the same net, and afterwards the slot of every variable whose binding *)
(* was followed is removed from the store and every other slot is as it was.*)
(***************************************************************************)
RECURSIVE Followed(_, _)
\* the bound variables substitute_ref meets when it resolves tree on n
Followed(n, tree) ==
    IF IsAgent(tree)
    THEN UNION {Followed(n, tree.aux[k]) : k \in 1..Len(tree.aux)}
    ELSE IF SmContains(n.vars, tree.var) /\ IsSome(SmGet(n.vars, tree.var))
    THEN {tree.var} \cup Followed(n, SmGet(n.vars, tree.var)[1])
    ELSE {}

SubstituteCalled == IsSome(subst.out) \/ pc = "panicked"

C16_AsClaimed ==
    SubstituteCalled =>
        /\ pc = "substituted"
        /\ subst.out = subst.ref
        /\ \A i \in 1..Len(subst.pre.vars.slots) :
              LET id == <<i, subst.pre.vars.slots[i].version>>
              IN  IF id \in Followed(subst.pre, subst.tree[1])
                  THEN ~SmContains(net.vars, id)
                  ELSE net.vars.slots[i] = subst.pre.vars.slots[i]
(***************************************************************************)
(* C17: for a pair of agents (a, b), interact applies the rule stored under *)
(* (kind(a), kind(b)) when there is one, its left_ports against a's aux     *)
(* trees and its right_ports against b's; only when there is none does it   *)
(* apply the rule stored under (kind(b), kind(a)), its left_ports against   *)
(* b's aux trees and its right_ports against a's.                           *)
(***************************************************************************)
\* the latest call pushed, in order, a copy of each left port against the
\* tree of left at the same place, then of each right port against right's
PushedFrom(rule, left, right) ==
    /\ Len(left) = Len(rule.left_ports)
    /\ Len(right) = Len(rule.right_ports)
    /\ Len(Pushed) = Len(left) + Len(right)
    /\ \A k \in 1..Len(left) :
          /\ SameShape(rule.left_ports[k], Pushed[k][1])
          /\ Pushed[k][2] = left[k]
    /\ \A k \in 1..Len(right) :
          /\ SameShape(rule.right_ports[k], Pushed[Len(left) + k][1])
          /\ Pushed[Len(left) + k][2] = right[k]

C17_DirectRuleBeforeSwappedRule ==
    (CallMade /\ IsAgent(LastA) /\ IsAgent(LastB)) =>
        IF HasRule(system, LastA.id, LastB.id)
        THEN PushedFrom(system[<<LastA.id, LastB.id>>], LastA.aux, LastB.aux)
        ELSE HasRule(system, LastB.id, LastA.id) =>
                PushedFrom(system[<<LastB.id, LastA.id>>], LastB.aux, LastA.aux)

\* a call on A(t) ~ B() under a table holding different rules for (A, B) and (B, A)
C17_Witness ==
    /\ RuleCall
    /\ LastA.id # LastB.id
    /\ HasRule(system, LastA.id, LastB.id)
    /\ HasRule(system, LastB.id, LastA.id)
    /\ system[<<LastA.id, LastB.id>>] # system[<<LastB.id, LastA.id>>]
    /\ Pushed # <<>>

\* a call on A(t) ~ B() under a table holding a rule for (B, A) only
C17_SwappedRuleUsed ==
    /\ RuleCall
    /\ ~HasRule(system, LastA.id, LastB.id)
    /\ Pushed # <<>>
(***************************************************************************)
(* C18: when typecheck_net pops a stuck pair with the wrapper               *)
(* Ann(payload, witness) on one side, the witness is appended to the        *)
(* garbage list and the net the checker goes on with is the result of       *)
(* interact(payload, other side) on the net without that pair: the witness  *)
(* is no argument of it, and the garbage list is only ever appended to, so  *)
(* the witness does not come back into the pending queue, the stuck set or  *)
(* a binding.                                                               *)
(***************************************************************************)
\* the pair typecheck_net pops next is a stuck pair
StuckPop == pc = "typecheck" /\ net.interactions = <<>> /\ net.stuck # <<>>
TopStuck == net.stuck[Len(net.stuck)]
\* the side taken as the wrapper: the second when it is Ann, else the first
Wrapper == IF TopStuck[2].id = TheProgram.ann_id THEN TopStuck[2] ELSE TopStuck[1]
OtherSide == IF TopStuck[2].id = TheProgram.ann_id THEN TopStuck[1] ELSE TopStuck[2]
AnnPop == StuckPop /\ Wrapper.id = TheProgram.ann_id /\ Len(Wrapper.aux) = 2
WithoutTop == [net EXCEPT !.stuck = SubSeq(@, 1, Len(@) - 1)]

WitnessGoesToGc ==
    AnnPop =>
        /\ gc' = Append(gc, Wrapper.aux[2])
        /\ last' = [a |-> Some(Wrapper.aux[1]), b |-> Some(OtherSide), pre |-> WithoutTop]
        /\ net' = interact(system, WithoutTop, Wrapper.aux[1], OtherSide)

GcOnlyGrowsAtAnnPop ==
    gc' # gc => (AnnPop \/ (pc = "checks" /\ gc' = <<>>))

C18_WitnessIsDiscarded ==
    /\ [][WitnessGoesToGc]_vars
    /\ [][GcOnlyGrowsAtAnnPop]_vars

\* a wrapper was popped from the stuck set, its witness is in gc and its
\* payload was handed to interact
C18_Witness ==
    /\ pc = "typecheck"
    /\ IsSome(stuck_pair)
    /\ stuck_pair[1][1].id = TheProgram.ann_id
    /\ gc # <<>>
    /\ gc[Len(gc)] = stuck_pair[1][1].aux[2]
    /\ last.a = Some(stuck_pair[1][1].aux[1])
    /\ stuck_pair[1][1].aux[1] # stuck_pair[1][1].aux[2]
(***************************************************************************)
(* C19 as claimed: in every Program finish() returns, each Definition of    *)
(* Program.definitions has a rule in Program.system under                   *)
(* (left.id, right.id) whose left_ports and right_ports are the aux         *)
(* patterns of the Definition's left and right sides, for every statement   *)
(* sequence, those without a Declaration included.                          *)
(***************************************************************************)
HasItsRule(p, def) ==
    /\ KeyOf(def) \in DOMAIN p.system
    /\ p.system[KeyOf(def)].left_ports = def.left.aux
    /\ p.system[KeyOf(def)].right_ports = def.right.aux

C19_AsClaimed ==
    IsSome(program) =>
        \A k \in 1..Len(TheProgram.definitions) :
            HasItsRule(TheProgram, TheProgram.definitions[k])

\* the bookkeeping kinds were created while a Declaration was loaded
BookHasDeclaration == \E k \in 1..Len(book) : book[k].kind = "Decl"
(***************************************************************************)
(* C20: loading a Declaration of constructor C with ports                   *)
(* (pre_i, post_i, type_i) and parent type pattern P adds exactly one       *)
(* Definition for it, keyed (annotator kind, C), with left pattern          *)
(* Annotator(Ann(C(post_1..post_n), P)) and right pattern                   *)
(* C(Ann(pre_1, type_1), ..., Ann(pre_n, type_n)), ports in the order of    *)
(* the declaration.                                                         *)
(***************************************************************************)
RECURSIVE Loads(_, _, _)
\* tree is what the syntax tree stree loads to, up to the ids of variables
Loads(scope, tree, stree) ==
    IF "vname" \in DOMAIN stree THEN IsVar(tree)
    ELSE IF "redex" \in DOMAIN stree THEN Loads(scope, tree, stree.rest)
    ELSE /\ IsAgent(tree)
         /\ stree.name \in DOMAIN scope
         /\ tree.id = scope[stree.name]
         /\ Len(tree.aux) = Len(stree.aux)
         /\ \A k \in 1..Len(stree.aux) : Loads(scope, tree.aux[k], stree.aux[k])

\* the step loads a Declaration
DeclStep == pc = "load" /\ loaded < Len(book) /\ book[loaded + 1].kind = "Decl"
NextStatement == book[loaded + 1]
\* the Declaration pushed by the step and the Definitions it added
NewDecl == builder'.declarations[Len(builder'.declarations)]
NewDefs ==
    SubSeq(builder'.definitions, Len(builder.definitions) + 1, Len(builder'.definitions))
AnnotatorKind == builder'.agent_scope["__ANNOTATOR"]
AnnKind == builder'.agent_scope["__ANN"]

\* the ports of the pushed Declaration are those of the statement, in order
PortsAsDeclared ==
    /\ Len(builder'.declarations) = Len(builder.declarations) + 1
    /\ NewDecl.agent.id = builder'.agent_scope[NextStatement.agent.name]
    /\ Len(NewDecl.agent.aux) = Len(NextStatement.agent.aux)
    /\ \A k \in 1..Len(NewDecl.agent.aux) : \A j \in 1..3 :
          Loads(builder'.agent_scope, NewDecl.agent.aux[k][j], NextStatement.agent.aux[k][j])
    /\ Loads(builder'.agent_scope, Agent(NewDecl.type.id, NewDecl.type.aux),
             SAgent(NextStatement.type.name, NextStatement.type.aux))

OneAnnotatorRule ==
    LET C == NewDecl.agent.id
        n == Len(NewDecl.agent.aux)
        d == NewDefs[Len(NewDefs)]
    IN  /\ NewDefs # <<>>
        /\ Cardinality({k \in 1..Len(NewDefs) : NewDefs[k].right.id = C}) = 1
        /\ \A k \in 1..(Len(NewDefs) - 1) :
              /\ NewDefs[k].left.id \in {AnnotatorKind, AnnKind}
              /\ NewDefs[k].right.id = NewDefs[k].left.id
              /\ \A nm \in DOMAIN builder.agent_scope :
                    builder.agent_scope[nm] # NewDefs[k].left.id
        /\ KeyOf(d) = <<AnnotatorKind, C>>
        /\ d.left.aux =
              <<Agent(AnnKind,
                      <<Agent(C, [i \in 1..n |-> NewDecl.agent.aux[i][2]]),
                        Agent(NewDecl.type.id, NewDecl.type.aux)>>)>>
        /\ d.right.aux =
              [i \in 1..n |-> Agent(AnnKind, <<NewDecl.agent.aux[i][1], NewDecl.agent.aux[i][3]>>)]

C20_DeclarationAddsOneAnnotatorRule ==
    [][DeclStep => (PortsAsDeclared /\ OneAnnotatorRule)]_vars

\* the Declaration loaded last has two ports whose pre- and post-states
\* differ, and its Definition is the last one of the builder
C20_Witness ==
    /\ pc = "load"
    /\ loaded > 0
    /\ book[loaded] = DeclP
    /\ builder.definitions # <<>>
    /\ builder.definitions[Len(builder.definitions)].right.id = builder.agent_scope["P"]
    /\ Len(builder.definitions[Len(builder.definitions)].right.aux) = 2
(***************************************************************************)
(* C21 as claimed: variable names are resolved in a scope local to one      *)
(* statement, the bookkeeping definitions the builder loads itself          *)
(* included: each bookkeeping Definition is the one its book loads to when  *)
(* no name of another statement is in scope, with its variables allocated   *)
(* in the net captured with it.                                             *)
(***************************************************************************)
\* the Definition the one-statement book bk loads to on a builder that knows
\* the kind name as id and has no variable name in scope
LoadedAlone(name, id, bk) ==
    load_defs([NewBuilder EXCEPT !.agent_scope = (name :> id)], bk).definitions[1]

IsBookkeeping(b, def, name) ==
    /\ name \in DOMAIN b.agent_scope
    /\ def.left.id = b.agent_scope[name]
    /\ def.right.id = b.agent_scope[name]

\* the variables of the patterns of def are slots of the net captured with it
OwnVariables(def) ==
    \A id \in TreeVars(Agent(def.left.id, def.left.aux)) \cup TreeVars(Agent(def.right.id, def.right.aux)) :
        SmContains(def.net.vars, id)

C21_AsClaimed ==
    \A k \in 1..Len(builder.definitions) :
        LET def == builder.definitions[k]
        IN  /\ IsBookkeeping(builder, def, "__ANNOTATOR") =>
                 def = LoadedAlone("__ANNOTATOR", def.left.id, AnnotatorBook)
            /\ IsBookkeeping(builder, def, "__ANN") =>
                 def = LoadedAlone("__ANN", def.left.id, AnnBook)
            /\ OwnVariables(def)
(***************************************************************************)
(* C22: loading a tree `rest with l ~ r` returns the loaded rest and        *)
(* appends the loaded pair (l, r) to the builder's working net; the         *)
(* interactions hoisted while a statement is loaded are in the net captured *)
(* with that statement (Declaration, Definition or Check), the nets         *)
(* captured with other statements are not touched, and after each           *)
(* statement the builder's working net holds no interaction.                *)
(***************************************************************************)
RECURSIVE Hoists(_)
RECURSIVE HoistsOfAll(_)
\* the redexes load_tree hoists from a syntax tree, in the order it meets them
Hoists(stree) ==
    IF "vname" \in DOMAIN stree THEN <<>>
    ELSE IF "redex" \in DOMAIN stree
    THEN Hoists(stree.redex[1]) \o Hoists(stree.redex[2]) \o <<stree.redex>> \o Hoists(stree.rest)
    ELSE HoistsOfAll(stree.aux)
HoistsOfAll(strees) ==
    IF strees = <<>> THEN <<>> ELSE Hoists(Head(strees)) \o HoistsOfAll(Tail(strees))

RECURSIVE CheckPairs(_)
\* the pairs the Check arm pushes: for each pair, its hoists and then itself
CheckPairs(pairs) ==
    IF pairs = <<>> THEN <<>>
    ELSE Hoists(Head(pairs)[1]) \o Hoists(Head(pairs)[2]) \o <<Head(pairs)>> \o CheckPairs(Tail(pairs))

\* the pairs expected in the net captured with statement st
ExpectedPairs(st) ==
    CASE st.kind = "Decl" -> HoistsOfAll(ConcatAll(st.agent.aux) \o st.vars \o st.type.aux)
      [] st.kind = "Def" -> HoistsOfAll(st.left.aux \o st.right.aux)
      [] st.kind = "Check" -> CheckPairs(st.interactions)

\* the interactions of n are the expected syntax pairs, loaded, in order
HoldsPairs(scope, n, spairs) ==
    /\ Len(n.interactions) = Len(spairs)
    /\ \A k \in 1..Len(spairs) :
          /\ Loads(scope, n.interactions[k][1], spairs[k][1])
          /\ Loads(scope, n.interactions[k][2], spairs[k][2])


StatementStep == pc = "load" /\ loaded < Len(book)
NewChecks == SubSeq(builder'.checks, Len(builder.checks) + 1, Len(builder'.checks))
NewDecls ==
    SubSeq(builder'.declarations, Len(builder.declarations) + 1, Len(builder'.declarations))

\* the statement's own captured net holds its hoisted pairs; the patterns it
\* stores are the loaded rests
CapturedWithStatement ==
    LET st == NextStatement
        scope == builder'.agent_scope
    IN  CASE st.kind = "Decl" ->
               /\ Len(NewDecls) = 1 /\ NewChecks = <<>>
               /\ HoldsPairs(scope, NewDecls[1].net, ExpectedPairs(st))
               /\ Loads(scope, Agent(NewDecls[1].type.id, NewDecls[1].type.aux),
                        SAgent(st.type.name, st.type.aux))
               /\ NewDefs[Len(NewDefs)].net = NewDecls[1].net
               /\ \A k \in 1..(Len(NewDefs) - 1) : NewDefs[k].net.interactions = <<>>
          [] st.kind = "Def" ->
               /\ Len(NewDefs) = 1 /\ NewDecls = <<>> /\ NewChecks = <<>>
               /\ HoldsPairs(scope, NewDefs[1].net, ExpectedPairs(st))
               /\ Loads(scope, Agent(NewDefs[1].left.id, NewDefs[1].left.aux),
                        SAgent(st.left.name, st.left.aux))
               /\ Loads(scope, Agent(NewDefs[1].right.id, NewDefs[1].right.aux),
                        SAgent(st.right.name, st.right.aux))
          [] st.kind = "Check" ->
               /\ Len(NewChecks) = 1 /\ NewDecls = <<>> /\ NewDefs = <<>>
               /\ NewChecks[1][1] = st.positive
               /\ HoldsPairs(scope, NewChecks[1][2], ExpectedPairs(st))

\* what was captured with earlier statements stays as it was
OtherStatementsUntouched ==
    /\ IsPrefix(builder.declarations, builder'.declarations)
    /\ IsPrefix(builder.definitions, builder'.definitions)
    /\ IsPrefix(builder.checks, builder'.checks)

HoistsStayInTheirStatement ==
    StatementStep =>
        /\ CapturedWithStatement
        /\ OtherStatementsUntouched
        /\ builder'.net.interactions = <<>>

C22_HoistedInteractionsAttributed == [][HoistsStayInTheirStatement]_vars

\* a Check with a with-redex was loaded after another statement: its net
\* holds the hoisted pair before the checked pair
C22_Witness ==
    /\ pc = "load"
    /\ loaded > 1
    /\ book[loaded] = CheckWith
    /\ builder.checks # <<>>
    /\ Len(builder.checks[Len(builder.checks)][2].interactions) = 2
    /\ builder.net.interactions = <<>>
(***************************************************************************)
(* C23: every pair interact places in the stuck set has an agent on both    *)
(* sides, a pair with a variable is never stuck; so the pair typecheck_net  *)
(* pops from the stuck set has an agent kind on both sides.                 *)
(***************************************************************************)
AgentPair(pair) == IsAgent(pair[1]) /\ IsAgent(pair[2])

C23_StuckPairsAreAgentPairs ==
    /\ \A k \in 1..Len(net.stuck) : AgentPair(net.stuck[k])
    /\ IsSome(stuck_pair) => AgentPair(stuck_pair[1])

\* interact was called on a pair with a variable while a pair was stuck, and
\* a stuck pair had been popped before
C23_Witness ==
    /\ pc = "typecheck"
    /\ net.stuck # <<>>
    /\ IsSome(stuck_pair)
    /\ CallMade
    /\ (IsVar(LastA) \/ IsVar(LastB))
(***************************************************************************)
(* C24: typecheck_net pops a stuck pair only when the pending queue is      *)
(* empty, and its loop ends normally only when the pending queue and the    *)
(* stuck set are both empty; so the only failure it returns is the          *)
(* undefined-interaction error, never "Had stuck interactions".             *)
(***************************************************************************)
\* a turn of the loop taken while a pair is pending leaves the stuck set to
\* interact: no stuck pair is popped
PendingBeforeStuck ==
    (pc = "typecheck" /\ net.interactions # <<>>) =>
        /\ stuck_pair' = stuck_pair
        /\ last'.pre.stuck = net.stuck
        /\ last'.pre.interactions = SubSeq(net.interactions, 1, Len(net.interactions) - 1)

\* typecheck_net returned
TypecheckReturned == pc = "verdict" /\ Returned

ReturnsOkOnlyWhenDrained ==
    (TypecheckReturned /\ TheResult.ok) => (net.interactions = <<>> /\ net.stuck = <<>>)

OnlyUndefinedInteractionFails ==
    (TypecheckReturned /\ ~TheResult.ok) =>
        /\ TheResult # Err(<<"Had stuck interactions">>)
        /\ \E ea, eb \in DOMAIN TheProgram.agent_scope : TheResult = UndefinedInteraction(ea, eb)

C24_NeverHadStuckInteractions ==
    /\ [][PendingBeforeStuck]_vars
    /\ [](ReturnsOkOnlyWhenDrained /\ OnlyUndefinedInteractionFails)

\* the loop ended normally after it had popped a stuck pair
C24_Witness ==
    /\ TypecheckReturned
    /\ TheResult = Ok
    /\ IsSome(stuck_pair)
    /\ gc # <<>>
(***************************************************************************)
(* C25: get_nth_instances(kind, d) terminates for every list of             *)
(* Declarations, kind and depth, a kind declared an instance of itself or   *)
(* two kinds declared instances of each other included: each recursive call *)
(* is made at depth d + 1 and visits only declarations with d index trees.  *)
(***************************************************************************)
InstReturned == pc = "returned" /\ IsSome(inst.out)

\* a callee runs one deeper than its caller, which was at a declaration with
\* as many index trees as the caller's depth
DepthGrows ==
    \A k \in 2..Len(inst.stack) :
        /\ inst.stack[k].d = inst.stack[k - 1].d + 1
        /\ \E j \in 1..Len(TheProgram.declarations) :
              Len(TheProgram.declarations[j].intermediate) = inst.stack[k - 1].d

\* what the followed call returns is what get_nth_instances evaluates to
ReturnsInstances ==
    InstReturned => inst.out[1] = get_nth_instances(TheProgram, inst.t, inst.d)

\* get_nth_instances was called and has not returned
InstRunning == pc = "instances"

C25_GetNthInstancesTerminates ==
    /\ InstRunning ~> InstReturned
    /\ [](DepthGrows /\ ReturnsInstances)

\* the call returned after recursive calls two deep, on a hierarchy where a
\* kind is an instance of itself or of one of its own instances
SelfOrMutualInstance ==
    \E j, k \in 1..Len(TheProgram.declarations) :
        /\ TheProgram.declarations[j].type.id = TheProgram.declarations[k].agent.id
        /\ TheProgram.declarations[k].type.id = TheProgram.declarations[j].agent.id

C25_Witness ==
    /\ InstReturned
    /\ inst.deepest >= 3
    /\ inst.out[1] # <<>>
    /\ SelfOrMutualInstance
====
